---- MODULE Spec2Model ----
(***************************************************************************)
(* Model of the multi-host placement and deployment orchestrator of        *)
(* unified-deployment.py (class UnifiedOrchestrator).                      *)
(*                                                                         *)
(* Remote collaborators (ping, ssh, nvidia-smi over ssh) are the           *)
(* environment: every answer they give is an input drawn from a bounded    *)
(* set.  Python exceptions are modelled as values: a function that can     *)
(* raise returns a record with a field "raised".                           *)
(***************************************************************************)
EXTENDS Integers, Sequences, FiniteSets, TLC

----------------------------------------------------------------------------
(* Bounds of the model *)

\* largest number of output lines of one telemetry reply
MaxGpuLines == 2

----------------------------------------------------------------------------
(* Generic helpers *)

Range(s) == {s[i] : i \in 1..Len(s)}

\* dict.get(key, default) on a dict modelled as a function over its keys
DictGet(d, k, default) == IF k \in DOMAIN d THEN d[k] ELSE default

\* Python floats that arise here are quotients of small integers; they are
\* modelled as exact rationals [num, den] in lowest terms, with num >= 0 and
\* den > 0.
RECURSIVE GCD(_, _)
GCD(a, b) == IF b = 0 THEN a ELSE GCD(b, a % b)

Rat(n, d) == LET g == GCD(n, d) IN [num |-> n \div g, den |-> d \div g]
RatLess(a, b) == a.num * b.den < b.num * a.den
RatEq(a, b) == a.num * b.den = b.num * a.den
RatAdd(a, b) == Rat(a.num * b.den + b.num * a.den, a.den * b.den)
RatDivInt(a, n) == Rat(a.num, a.den * n)
RatFromInt(n) == Rat(n, 1)
\* n - a for an integer n
IntMinusRat(n, a) == Rat(n * a.den - a.num, a.den)

----------------------------------------------------------------------------
(* Host registry: UnifiedOrchestrator.load_system_configs *)

SystemConfig(n, t, h, g, v, r, p) ==
    [name |-> n, type |-> t, host |-> h, gpu_count |-> g,
     vram_total |-> v, role |-> r, priority |-> p]

load_system_configs ==
    << SystemConfig("mac-studio", "mac", "localhost", 0, "0GB",
                    "development_control", 1),
       SystemConfig("dgx-spark", "dgx-spark", "dgx-spark.lab", 2, "160GB",
                    "orchestration_gateway", 2),
       SystemConfig("hpc-1", "hpc", "hpc-1.lab", 2, "192GB",
                    "primary_inference", 3),
       SystemConfig("hpc-2", "hpc", "hpc-2.lab", 3, "96GB",
                    "multi_user_serving", 4),
       SystemConfig("hpc-3", "hpc", "hpc-3.lab", 1, "48GB",
                    "development_backup", 5) >>

\* self.systems, set once in __init__ and never reassigned
systems == load_system_configs

SystemNames == {systems[i].name : i \in 1..Len(systems)}

\* next(s for s in self.systems if s.name == name): the first match, or
\* StopIteration when there is none
FindSystem(name) ==
    LET hits == {i \in 1..Len(systems) : systems[i].name = name}
    IN  IF hits = {}
        THEN [raised |-> "StopIteration", value |-> systems[1]]
        ELSE [raised |-> "none",
              value |-> systems[CHOOSE i \in hits : \A j \in hits : i <= j]]

----------------------------------------------------------------------------
(* Availability prober: UnifiedOrchestrator.check_system_availability *)

\* What the two subprocess.run calls can do: exit 0, exit non-zero, or raise
\* (TimeoutExpired when the timeout passes, OSError when the command cannot
\* be started).  "notrun" marks the ssh call of a probe whose ping already
\* decided the answer.
CallExceptions == {"TimeoutExpired", "OSError"}
CallOutcomes == {"rc0", "rc_nonzero"} \cup CallExceptions

ProbeReplies ==
    {[ping |-> p, ssh |-> "notrun"] : p \in CallOutcomes \ {"rc0"}}
    \cup {[ping |-> "rc0", ssh |-> s] : s \in CallOutcomes}

\* variant: a ping that exits non-zero does not end the check
AvailabilityTryBody_noShortCircuit(probe) ==
    IF probe.ping \in CallExceptions
    THEN [raised |-> probe.ping, value |-> FALSE, calls |-> <<"ping">>]
    ELSE IF probe.ssh \in CallExceptions
    THEN [raised |-> probe.ssh, value |-> FALSE, calls |-> <<"ping", "ssh">>]
    ELSE [raised |-> "none", value |-> probe.ssh = "rc0",
          calls |-> <<"ping", "ssh">>]

\* the body of the try block (lines 112-123): the value it returns or the
\* exception it raises, and the commands it has run
AvailabilityTryBody(probe) ==
    IF probe.ping \in CallExceptions
    THEN [raised |-> probe.ping, value |-> FALSE, calls |-> <<"ping">>]
    ELSE IF probe.ping # "rc0"
    THEN [raised |-> "none", value |-> FALSE, calls |-> <<"ping">>]
    ELSE IF probe.ssh \in CallExceptions
    THEN [raised |-> probe.ssh, value |-> FALSE, calls |-> <<"ping", "ssh">>]
    ELSE [raised |-> "none", value |-> probe.ssh = "rc0",
          calls |-> <<"ping", "ssh">>]

\* variant: the handler names the timeout only
AvailabilityExcept_narrow == {"TimeoutExpired"}

\* "except Exception" (line 125) catches every exception the body can raise
AvailabilityExcept == {"TimeoutExpired", "OSError"}

\* variant: the handshake stage is left out
check_system_availability_NoSsh(system, probe) ==
    IF system.type = "mac"
    THEN [raised |-> "none", value |-> TRUE, calls |-> << >>]
    ELSE [raised |-> "none", value |-> probe.ping = "rc0",
          calls |-> <<"ping">>]

check_system_availability(system, probe) ==
    IF system.type = "mac"
    THEN [raised |-> "none", value |-> TRUE, calls |-> << >>]
    ELSE LET body == AvailabilityTryBody(probe) IN
         IF body.raised = "none" THEN body
         ELSE IF body.raised \in AvailabilityExcept
         THEN [raised |-> "none", value |-> FALSE, calls |-> body.calls]
         ELSE body

----------------------------------------------------------------------------
(* Resource telemetry: UnifiedOrchestrator.get_system_resources *)

\* One output line of the nvidia-smi query, after line.split(', '): the
\* list of its fields, each of which int() either accepts or rejects.
\* A blank line is one for which line.strip() is empty.
IntField(v) == [int |-> TRUE, val |-> v]
TextField == [int |-> FALSE, val |-> 0]
BlankLine == [blank |-> TRUE, fields |-> << >>]
TextLine(fs) == [blank |-> FALSE, fields |-> fs]
GpuLine(util, used, total) ==
    TextLine(<<IntField(util), IntField(used), IntField(total)>>)

\* result.stdout.strip().split('\n'): never an empty list, an empty output
\* yields one empty line
SplitLines(stdout) == IF stdout = << >> THEN <<BlankLine>> ELSE stdout

NoDict == [nothing |-> TRUE]
AvailableFalse == [available |-> FALSE]

\* variant: a line that does not parse is skipped instead of failing the query
RECURSIVE ParseGpuLines_skip(_, _, _)
ParseGpuLines_skip(lines, i, gpu_data) ==
    IF i > Len(lines) THEN [raised |-> "none", gpu_data |-> gpu_data]
    ELSE LET line == lines[i] IN
         IF line.blank THEN ParseGpuLines_skip(lines, i + 1, gpu_data)
         ELSE IF Len(line.fields) # 3
                 \/ \E k \in 1..Len(line.fields) : ~line.fields[k].int
              THEN ParseGpuLines_skip(lines, i + 1, gpu_data)
         ELSE LET util == line.fields[1].val
                  mem_used == line.fields[2].val
                  mem_total == line.fields[3].val
              IN  IF mem_total = 0
                  THEN [raised |-> "ZeroDivisionError", gpu_data |-> gpu_data]
                  ELSE ParseGpuLines_skip(lines, i + 1,
                         Append(gpu_data,
                                [utilization |-> util,
                                 memory_used |-> mem_used,
                                 memory_total |-> mem_total,
                                 memory_percent |-> Rat(mem_used * 100, mem_total)]))

\* the loop over the lines (lines 141-150): stops at the first line that
\* raises
RECURSIVE ParseGpuLines(_, _, _)
ParseGpuLines(lines, i, gpu_data) ==
    IF i > Len(lines) THEN [raised |-> "none", gpu_data |-> gpu_data]
    ELSE LET line == lines[i] IN
         IF line.blank THEN ParseGpuLines(lines, i + 1, gpu_data)
         ELSE IF Len(line.fields) # 3
                 \/ \E k \in 1..Len(line.fields) : ~line.fields[k].int
              THEN [raised |-> "ValueError", gpu_data |-> gpu_data]
         ELSE LET util == line.fields[1].val
                  mem_used == line.fields[2].val
                  mem_total == line.fields[3].val
              IN  IF mem_total = 0
                  THEN [raised |-> "ZeroDivisionError", gpu_data |-> gpu_data]
                  ELSE ParseGpuLines(lines, i + 1,
                         Append(gpu_data,
                                [utilization |-> util,
                                 memory_used |-> mem_used,
                                 memory_total |-> mem_total,
                                 memory_percent |-> Rat(mem_used * 100, mem_total)]))

RECURSIVE SumUtilization(_, _)
SumUtilization(gpu_data, i) ==
    IF i > Len(gpu_data) THEN 0
    ELSE gpu_data[i].utilization + SumUtilization(gpu_data, i + 1)

RECURSIVE SumMemoryPercent(_, _)
SumMemoryPercent(gpu_data, i) ==
    IF i > Len(gpu_data) THEN RatFromInt(0)
    ELSE RatAdd(gpu_data[i].memory_percent, SumMemoryPercent(gpu_data, i + 1))

\* the body of the try block (lines 135-158): the dict it returns, "falls"
\* when it reaches the end without returning, or the exception it raises
ResourcesTryBody(reply) ==
    IF reply.status = "TimeoutExpired"
    THEN [raised |-> "TimeoutExpired", falls |-> FALSE, value |-> NoDict]
    ELSE IF reply.status # "exit0"
    THEN [raised |-> "none", falls |-> TRUE, value |-> NoDict]
    ELSE LET parsed == ParseGpuLines(SplitLines(reply.stdout), 1, << >>)
             gpu_data == parsed.gpu_data
         IN  IF parsed.raised # "none"
             THEN [raised |-> parsed.raised, falls |-> FALSE, value |-> NoDict]
             ELSE IF Len(gpu_data) = 0
             THEN [raised |-> "ZeroDivisionError", falls |-> FALSE,
                   value |-> NoDict]
             ELSE [raised |-> "none", falls |-> FALSE,
                   value |-> [available |-> TRUE,
                              gpu_count |-> Len(gpu_data),
                              gpus |-> gpu_data,
                              avg_utilization |->
                                  Rat(SumUtilization(gpu_data, 1), Len(gpu_data)),
                              avg_memory_percent |->
                                  RatDivInt(SumMemoryPercent(gpu_data, 1),
                                            Len(gpu_data))]]

\* variant: the handler names the transport and parse errors only
ResourcesExcept_narrow == {"TimeoutExpired", "ValueError"}

\* "except Exception" (line 159) catches every exception the body can raise
ResourcesExcept == {"TimeoutExpired", "ValueError", "ZeroDivisionError"}

get_system_resources(system, reply) ==
    IF system.type = "mac"
    THEN [raised |-> "none",
          value |-> [cpu_percent |-> 0, memory_percent |-> 0,
                     gpu_utilization |-> 0]]
    ELSE LET body == ResourcesTryBody(reply) IN
         IF body.raised # "none"
         THEN IF body.raised \in ResourcesExcept
              THEN [raised |-> "none", value |-> AvailableFalse]
              ELSE [raised |-> body.raised, value |-> NoDict]
         ELSE IF body.falls
         THEN [raised |-> "none", value |-> AvailableFalse]
         ELSE [raised |-> "none", value |-> body.value]

\* Telemetry replies the environment can give
ReplyStatuses == {"exit0", "exit_nonzero", "TimeoutExpired"}

LineInputs ==
    { BlankLine,
      GpuLine(0, 0, 1024), GpuLine(10, 512, 1024),
      GpuLine(80, 512, 1024), GpuLine(100, 1024, 1024),
      GpuLine(10, 0, 0),
      TextLine(<<TextField, IntField(512), IntField(1024)>>),
      TextLine(<<IntField(10), IntField(512)>>),
      TextLine(<<IntField(10), IntField(512), IntField(1024),
                 IntField(7)>>) }

RECURSIVE SeqsUpTo(_, _)
SeqsUpTo(S, n) ==
    IF n = 0 THEN {<< >>}
    ELSE LET shorter == SeqsUpTo(S, n - 1)
         IN  shorter \cup {Append(q, x) : q \in shorter, x \in S}

StdoutInputs == SeqsUpTo(LineInputs, MaxGpuLines)

TelemetryReplies ==
    {[status |-> "exit0", stdout |-> out] : out \in StdoutInputs}
    \cup {[status |-> st, stdout |-> << >>] :
            st \in ReplyStatuses \ {"exit0"}}

----------------------------------------------------------------------------
(* Placement selector: UnifiedOrchestrator.select_optimal_system *)

routing_rules ==
    [development      |-> <<"dgx-spark", "hpc-3">>,
     testing          |-> <<"dgx-spark", "hpc-1">>,
     small_inference  |-> <<"dgx-spark", "hpc-3">>,
     medium_inference |-> <<"dgx-spark", "hpc-1">>,
     large_inference  |-> <<"hpc-1", "dgx-spark">>,
     batch_processing |-> <<"hpc-1", "hpc-2">>,
     multi_user       |-> <<"hpc-2", "dgx-spark">>,
     interactive      |-> <<"dgx-spark", "hpc-3">>]

\* lines 180-185; the value is assigned and never read afterwards
preferred_systems(size) ==
    IF size = "large" THEN <<"hpc-1">>
    ELSE IF size = "medium" THEN <<"dgx-spark", "hpc-1">>
    ELSE <<"dgx-spark", "hpc-3">>

\* variant: the workload list is narrowed to the size preference, with no
\* way back when nothing is left
Candidates_intersect(workload, size) ==
    SelectSeq(DictGet(routing_rules, workload, <<"dgx-spark">>),
              LAMBDA n : n \in Range(preferred_systems(size)))

\* variant: a workload type without an entry has no candidate
Candidates_noDefault(workload, size) ==
    DictGet(routing_rules, workload, << >>)

\* line 188: the candidate list depends on the workload type alone
Candidates(workload, size) ==
    DictGet(routing_rules, workload, <<"dgx-spark">>)

\* getattr(s, 'current_score', 0) on the host object named n, where score
\* maps the names of the hosts that carry the attribute to its value
GetScore(score, n) == IF n \in DOMAIN score THEN score[n] ELSE RatFromInt(0)

\* variant: a score the host already carries is kept
SetScore_cached(score, n, v) ==
    IF n \in DOMAIN score THEN score
    ELSE [m \in DOMAIN score \cup {n} |-> IF m = n THEN v ELSE score[m]]

\* system.current_score = v
SetScore(score, n, v) ==
    [m \in DOMAIN score \cup {n} |-> IF m = n THEN v ELSE score[m]]

\* variant: the first surviving host is taken, scores are not compared
PyMax_first(available, score, i, best) == best

\* variant: a later host replaces the best one on an equal score
RECURSIVE PyMax_lastTie(_, _, _, _)
PyMax_lastTie(available, score, i, best) ==
    IF i > Len(available) THEN best
    ELSE IF ~RatLess(GetScore(score, available[i]), GetScore(score, best))
         THEN PyMax_lastTie(available, score, i + 1, available[i])
         ELSE PyMax_lastTie(available, score, i + 1, best)

\* max(available, key=...): the first element whose key no other exceeds
RECURSIVE PyMax(_, _, _, _)
PyMax(available, score, i, best) ==
    IF i > Len(available) THEN best
    ELSE IF RatLess(GetScore(score, best), GetScore(score, available[i]))
         THEN PyMax(available, score, i + 1, available[i])
         ELSE PyMax(available, score, i + 1, best)

NoResult == [host |-> "", path |-> "none"]

\* variant: an empty pool is an error
SelectReturn_raise(available, score) ==
    IF available = << >>
    THEN [raised |-> "RuntimeError", value |-> NoResult]
    ELSE [raised |-> "none",
          value |-> [host |-> PyMax(available, score, 2, available[1]),
                     path |-> "scored"]]

\* variant: the best score is looked for among all hosts of the registry
SelectReturn_stale(available, score) ==
    IF available = << >>
    THEN LET found == FindSystem("dgx-spark") IN
         [raised |-> found.raised,
          value |-> [host |-> found.value.name, path |-> "fallback"]]
    ELSE LET names == [i \in 1..Len(systems) |-> systems[i].name] IN
         [raised |-> "none",
          value |-> [host |-> PyMax(names, score, 2, names[1]),
                     path |-> "scored"]]

\* lines 202-209: what the call returns once the loop is over
SelectReturn(available, score) ==
    IF available = << >>
    THEN LET found == FindSystem("dgx-spark") IN
         [raised |-> found.raised,
          value |-> [host |-> found.value.name, path |-> "fallback"]]
    ELSE [raised |-> "none",
          value |-> [host |-> PyMax(available, score, 2, available[1]),
                     path |-> "scored"]]

\* lines 336-342 of orchestrate_full_deployment: what the driver hands to
\* the dispatcher for a selected host, and the key under which it files the
\* outcome.  Host names contain no '_', so the formatted key determines the
\* pair and is modelled as the pair.
DeployConfig(workload, host) ==
    [workload_type |-> workload, system_role |-> FindSystem(host).value.role]

\* variant: the outcome is filed under the workload alone
ResultKey_workloadOnly(workload, host) == <<workload>>

\* line 342
ResultKey(workload, host) == <<workload, host>>

----------------------------------------------------------------------------
(* Deployment dispatcher: deploy_to_system and its three strategies *)

\* What a subprocess.run call without a timeout can do: exit 0, exit
\* non-zero, fail to start (OSError), or never return ("hang").
LocalOutcomes == {"rc0", "rc_nonzero", "OSError"}
RemoteOutcomes == {"rc0", "rc_nonzero", "OSError", "hang"}

\* the three setup commands of deploy_mac_control, in their order
MacCommands ==
    << "ai-workbench create-project qwen-image-edit",
       "ai-workbench connect dgx-spark",
       "ai-workbench setup-monitoring" >>

\* Answers of the environment to one deployment: mac holds the outcomes of
\* the local commands, sync and ssh those of rsync and of the remote
\* command, stderr what the remote command wrote to its error stream.
MacDeployOutcomes ==
    {[mac |-> <<a, b, c>>, sync |-> "notrun", ssh |-> "notrun", stderr |-> ""] :
        a \in LocalOutcomes, b \in LocalOutcomes, c \in LocalOutcomes}

RemoteDeployOutcomes ==
    {[mac |-> << >>, sync |-> y, ssh |-> "notrun", stderr |-> ""] :
        y \in RemoteOutcomes \ {"rc0"}}
    \cup {[mac |-> << >>, sync |-> "rc0", ssh |-> x, stderr |-> ""] :
            x \in RemoteOutcomes \ {"rc_nonzero"}}
    \cup {[mac |-> << >>, sync |-> "rc0", ssh |-> "rc_nonzero",
           stderr |-> "deploy.py: error"]}

\* a call record of a strategy: the exception that escapes, the value
\* returned, the commands issued and whether the last of them never returned
Call(ex, v, cs, h) == [raised |-> ex, value |-> v, calls |-> cs, hung |-> h]

MacCall(i) == [cmd |-> MacCommands[i], host |-> "localhost", env |-> ""]

\* variant: the sequence is given up at the first command that fails
deploy_mac_control_abort(config, out) ==
    LET failed == {i \in 1..Len(MacCommands) : out.mac[i] # "rc0"}
        last == IF failed = {} THEN Len(MacCommands)
                ELSE CHOOSE i \in failed : \A k \in failed : i <= k
    IN  Call("none", failed = {}, [i \in 1..last |-> MacCall(i)], FALSE)

\* the for loop of lines 232-239 from command i on: the command is run; a
\* non-zero exit and an exception (out.mac[i]) write a warning to the log
\* and nothing else, and the loop goes on
RECURSIVE MacLoop(_, _, _)
MacLoop(i, out, issued) ==
    IF i > Len(MacCommands) THEN issued
    ELSE MacLoop(i + 1, out, Append(issued, MacCall(i)))

\* lines 222-241: every command is run, failures are only logged
deploy_mac_control(config, out) ==
    Call("none", TRUE, MacLoop(1, out, << >>), FALSE)

\* the two commands of a remote deployment: host is the address both go
\* to, env the name given to deploy.py --env
RsyncCall(host) == [cmd |-> "rsync", host |-> host, env |-> ""]
SshDeployCall(host, env) == [cmd |-> "ssh deploy.py", host |-> host, env |-> env]

\* variant: rsync is run without check=True
RemoteTryBody_noCheck(host, env, out) ==
    LET rsync == RsyncCall(host)
        ssh == SshDeployCall(host, env)
    IN  IF out.sync = "hang" THEN Call("none", FALSE, <<rsync>>, TRUE)
        ELSE IF out.sync = "OSError"
        THEN Call("OSError", FALSE, <<rsync>>, FALSE)
        ELSE IF out.ssh = "hang" THEN Call("none", FALSE, <<rsync, ssh>>, TRUE)
        ELSE IF out.ssh = "OSError"
        THEN Call("OSError", FALSE, <<rsync, ssh>>, FALSE)
        ELSE Call("none", out.ssh = "rc0", <<rsync, ssh>>, FALSE)

\* the try block shared by deploy_dgx_spark (lines 248-266) and
\* deploy_hpc_system (lines 276-293): rsync with check=True, then the remote
\* command over ssh
RemoteTryBody(host, env, out) ==
    LET rsync == RsyncCall(host)
        ssh == SshDeployCall(host, env)
    IN  IF out.sync = "hang" THEN Call("none", FALSE, <<rsync>>, TRUE)
        ELSE IF out.sync = "rc_nonzero"
        THEN Call("CalledProcessError", FALSE, <<rsync>>, FALSE)
        ELSE IF out.sync = "OSError"
        THEN Call("OSError", FALSE, <<rsync>>, FALSE)
        ELSE IF out.ssh = "hang" THEN Call("none", FALSE, <<rsync, ssh>>, TRUE)
        ELSE IF out.ssh = "OSError"
        THEN Call("OSError", FALSE, <<rsync, ssh>>, FALSE)
        ELSE Call("none", out.ssh = "rc0", <<rsync, ssh>>, FALSE)

\* variant: the handler names the failure to start only
DeployExcept_narrow == {"OSError"}

\* "except Exception" (lines 268 and 295)
DeployExcept == {"CalledProcessError", "OSError"}

RemoteCatch(body) ==
    IF body.raised # "none" /\ body.raised \in DeployExcept
    THEN Call("none", FALSE, body.calls, FALSE)
    ELSE body

\* lines 243-270: address and environment are written out in the code
deploy_dgx_spark(config, out) ==
    RemoteCatch(RemoteTryBody("dgx-spark.lab", "dgx-spark", out))

\* lines 272-297
deploy_hpc_system(system, config, out) ==
    RemoteCatch(RemoteTryBody(system.host, system.name, out))

\* lines 211-220
deploy_to_system(system, config, out) ==
    IF system.type = "mac" THEN deploy_mac_control(config, out)
    ELSE IF system.type = "dgx-spark" THEN deploy_dgx_spark(config, out)
    ELSE deploy_hpc_system(system, config, out)

\* deploy.py, line 214: the values argparse accepts for --env
EnvChoices == {"dgx-spark", "dgx-a100", "workstation"}

\* deploy.py, lines 214-219: parse_args ends the script with status 2 on a
\* value of --env that is not among the choices
ArgparseAccepts(env) == env \in EnvChoices

\* the remote command is "cd ... && python code/scripts/deploy.py --env E
\* && ...": it can exit zero only if deploy.py accepted E
RemoteCanExitZero(system) ==
    LET issued == deploy_to_system(system, << >>,
                      [mac |-> << >>, sync |-> "rc0", ssh |-> "rc0",
                       stderr |-> ""]).calls
    IN  \A i \in 1..Len(issued) :
            issued[i].cmd = "ssh deploy.py" => ArgparseAccepts(issued[i].env)

\* the outcomes the environment can give for a deployment to this host
DeployOutcomesFor(system) ==
    IF system.type = "mac" THEN MacDeployOutcomes
    ELSE {o \in RemoteDeployOutcomes :
             o.ssh = "rc0" => RemoteCanExitZero(system)}

\* lines 299-320: the dashboard document; the ports are "800" and "300"
\* followed by the position of the host, which is below 10
create_unified_dashboard ==
    [i \in 1..(Len(systems) - 1) |->
        [name |-> systems[i + 1].name,
         host |-> systems[i + 1].host,
         type |-> systems[i + 1].type,
         api_endpoint |-> <<"http", systems[i + 1].host, 8000 + i>>,
         ui_endpoint |-> <<"http", systems[i + 1].host, 3000 + i>>]]

----------------------------------------------------------------------------
(* code/scripts/deploy.py: the configuration script run on the remote host *)

\* lines 25-44: the configuration used when deployment.json is absent
default_config ==
    [project_name |-> "qwen-image-edit-ai-workbench",
     environments |->
        [e \in EnvChoices |->
            IF e = "dgx-spark"
            THEN [gpu_count |-> 2, gpu_memory |-> "48GB", workers |-> 4]
            ELSE IF e = "dgx-a100"
            THEN [gpu_count |-> 8, gpu_memory |-> "40GB", workers |-> 8]
            ELSE [gpu_count |-> 1, gpu_memory |-> "24GB", workers |-> 2]]]

\* lines 46-53: a deployment.json that parses replaces the defaults whole;
\* the second configuration is such a file without the key "environments"
LoadedConfigs == {default_config, [project_name |-> "qwen-custom"]}

\* lines 57-77: the number of lines of nvidia-smi -L that name a GPU, or
\* "error" when /proc/cpuinfo or nvidia-smi cannot be read or run
GpuCounts == {"0", "2", "8", "error"}
detect_environment(gpus) ==
    IF gpus = "error" THEN "workstation"
    ELSE IF gpus = "8" THEN "dgx-a100"
    ELSE IF gpus = "2" THEN "dgx-spark"
    ELSE "workstation"

\* what the three checks of validate_requirements meet: nvidia-smi exits
\* zero or not, is not installed, or cannot be executed; the interpreter is
\* 3.8 or later or not; /project has the space, has not, or statvfs fails
ValidationInputs ==
    {[gpu |-> g, python |-> p, disk |-> d] :
        g \in {"rc0", "rc_nonzero", "FileNotFoundError", "PermissionError"},
        p \in BOOLEAN,
        d \in {"enough", "low", "error"}}

\* lines 90-119: only FileNotFoundError is caught around nvidia-smi
validate_requirements(in) ==
    IF in.gpu = "PermissionError"
    THEN [raised |-> "PermissionError", value |-> FALSE, checks |-> << >>]
    ELSE LET checks == << [name |-> "GPU Available", passed |-> in.gpu = "rc0"],
                          [name |-> "Python 3.8+", passed |-> in.python],
                          [name |-> IF in.disk = "error" THEN "Disk Space"
                                    ELSE "Disk Space (100GB+)",
                           passed |-> in.disk = "enough"] >>
         IN  [raised |-> "none",
              value |-> \A i \in 1..Len(checks) : checks[i].passed,
              checks |-> checks]

\* lines 79-88: the lookup of "environments" raises KeyError when the loaded
\* configuration has no such key; an unknown name gets the fallback values
configure_for_environment(config, env_name) ==
    IF "environments" \notin DOMAIN config
    THEN [raised |-> "KeyError", environ |-> << >>]
    ELSE LET known == env_name \in DOMAIN config.environments
             env_config == IF known THEN config.environments[env_name]
                           ELSE [gpu_count |-> 1, gpu_memory |-> "24GB",
                                 workers |-> 2]
         IN  [raised |-> "none",
              environ |-> [GPU_COUNT |-> env_config.gpu_count,
                           API_WORKERS |-> env_config.workers,
                           GPU_MEMORY |-> env_config.gpu_memory]]

\* lines 138-143
StepNames ==
    <<"Download Models", "Configure Services", "Start Services",
      "Verify Deployment">>

\* what each step meets: the exit of download_models.py, the directory
\* calls, nothing, and the answers of the two health requests
StepInputs(i) ==
    IF i = 1 THEN {[run |-> r] : r \in {"rc0", "rc_nonzero", "OSError"}}
    ELSE IF i = 2 THEN {[run |-> r] : r \in {"ok", "OSError"}}
    ELSE IF i = 3 THEN {[run |-> "ok"]}
    ELSE {[run |-> "requests", api |-> a, ui |-> u] :
             a \in {"200", "503", "exception"},
             u \in {"200", "503", "exception"}}

\* lines 154-166
download_models(in) == in.run = "rc0"
\* lines 168-181
configure_services(in) == in.run = "ok"
\* lines 183-187
start_services(in) == TRUE
\* lines 189-210: only an answer of the API other than 200 fails the step;
\* an exception of either request does not
verify_deployment(in) ==
    IF in.api = "exception" THEN TRUE
    ELSE IF in.api # "200" THEN FALSE
    ELSE TRUE

\* step_func() for the step at position i
RunStep(i, in) ==
    IF i = 1 THEN download_models(in)
    ELSE IF i = 2 THEN configure_services(in)
    ELSE IF i = 3 THEN start_services(in)
    ELSE verify_deployment(in)

\* variant: a failed step is logged and the loop goes on
AfterStep_continue(i, passed) ==
    IF i < Len(StepNames) THEN "step" ELSE "return_true"

\* lines 145-152: where deploy() goes after the step at position i
AfterStep(i, passed) ==
    IF ~passed THEN "return_false"
    ELSE IF i < Len(StepNames) THEN "step"
    ELSE "return_true"

\* lines 225 and 228: sys.exit(0 if success else 1)
ExitOf(success) == IF success THEN 0 ELSE 1

----------------------------------------------------------------------------
(* State *)

VARIABLES
    pc,                 \* where the orchestrator is: "idle", "check",
                        \* "resources", "done" or "raised"
    workload_type,      \* arguments of the running select_optimal_system
    model_size,
    candidates,         \* its local list of candidate names
    idx,                \* position of its loop in candidates
    available_systems,  \* its local list of the hosts that passed
    current_score,      \* the current_score attribute patched onto the
                        \* host objects of self.systems, by host name
    answers,            \* what the environment answered in this call, one
                        \* entry per candidate reached
    result,             \* what the call returned
    raised,             \* the exception that escaped, "none" otherwise
    ref,                \* an earlier completed call kept for comparison
    telemetry,          \* one isolated get_system_resources call
    availability,       \* one isolated check_system_availability call
    main_pc,            \* where main() and the fleet driver are
    args,               \* the parsed command line
    fleet_i,            \* position of the driver's loop in the workloads
    deployment_results, \* the driver's dict of outcomes, by key
    log,                \* what the run has done so far, in order
    dispatch,           \* the last deploy_to_system call
    exit_status,        \* status of the process once it has ended
    dashboard_file,     \* content of dashboard-config.json
    script              \* one run of code/scripts/deploy.py

vars == <<pc, workload_type, model_size, candidates, idx, available_systems,
          current_score, answers, result, raised, ref, telemetry,
          availability, main_pc, args, fleet_i, deployment_results, log,
          dispatch, exit_status, dashboard_file, script>>

isolatedVars == <<telemetry, availability, script>>

mainVars == <<main_pc, args, fleet_i, deployment_results, log, dispatch,
              exit_status, dashboard_file>>

selectVars == <<pc, workload_type, model_size, candidates, idx,
                available_systems, current_score, answers, result, raised>>

NoValidation == [gpu |-> "notrun", python |-> FALSE, disk |-> "notrun"]
NoScript ==
    [pc |-> "start", env_arg |-> "", validate_only |-> FALSE,
     config |-> default_config, environment |-> "", validation |-> NoValidation,
     configured |-> FALSE, steps |-> << >>, returned |-> "none",
     raised |-> "none", exit |-> -1]

NotQueried == [status |-> "notrun", stdout |-> << >>]
NoRef == [set |-> FALSE, workload_type |-> "", model_size |-> "",
          answers |-> << >>, result |-> NoResult]
NoTelemetry == [asked |-> FALSE, system |-> "", reply |-> NotQueried,
                resources |-> [raised |-> "none", value |-> NoDict]]
NoAvailability == [asked |-> FALSE, system |-> "",
                   probe |-> [ping |-> "notrun", ssh |-> "notrun"],
                   outcome |-> [raised |-> "none", value |-> FALSE,
                                calls |-> << >>]]
NoArgs == [workloads |-> << >>, target_system |-> "", monitor_only |-> FALSE]
NoDispatch == [system |-> "", workload |-> "",
               out |-> [mac |-> << >>, sync |-> "notrun", ssh |-> "notrun",
                        stderr |-> ""],
               ret |-> Call("none", FALSE, << >>, FALSE)]

\* Inputs of the selection runs: every routed workload type and one the
\* routing table does not know
WorkloadInputs == DOMAIN routing_rules \cup {"production"}
ModelSizes == {"small", "medium", "large"}
SelectProbes ==
    {p \in ProbeReplies : p.ping # "OSError" /\ p.ssh # "OSError"}
SelectReplies ==
    {[status |-> "exit_nonzero", stdout |-> << >>],
     [status |-> "exit0", stdout |-> << >>],
     [status |-> "exit0", stdout |-> <<GpuLine(10, 512, 1024)>>],
     [status |-> "exit0", stdout |-> <<GpuLine(80, 512, 1024)>>]}
    \cup {[status |-> "exit0", stdout |-> out] :
            out \in {q \in StdoutInputs :
                       /\ Len(q) = MaxGpuLines
                       /\ q[1] = GpuLine(10, 512, 1024)
                       /\ \A i \in 2..Len(q) : q[i] = GpuLine(80, 512, 1024)}}

\* Inputs of the runs in which two calls are compared
PairWorkloads == {"large_inference", "interactive", "production"}
PairSizes == {"medium", "large"}
PairProbes ==
    {[ping |-> "rc_nonzero", ssh |-> "notrun"], [ping |-> "rc0", ssh |-> "rc0"]}
PairReplies ==
    {[status |-> "exit0", stdout |-> << >>],
     [status |-> "exit0", stdout |-> <<GpuLine(10, 512, 1024)>>],
     [status |-> "exit0", stdout |-> <<GpuLine(80, 512, 1024)>>]}

Init ==
    /\ pc = "idle"
    /\ workload_type = ""
    /\ model_size = ""
    /\ candidates = << >>
    /\ idx = 0
    /\ available_systems = << >>
    /\ current_score = << >>
    /\ answers = << >>
    /\ result = NoResult
    /\ raised = "none"
    /\ ref = NoRef
    /\ telemetry = NoTelemetry
    /\ availability = NoAvailability
    /\ main_pc = "start"
    /\ args = NoArgs
    /\ fleet_i = 0
    /\ deployment_results = << >>
    /\ log = << >>
    /\ dispatch = NoDispatch
    /\ exit_status = -1
    /\ dashboard_file = << >>
    /\ script = NoScript

----------------------------------------------------------------------------
(* select_optimal_system, one step per blocking remote exchange *)

\* the loop head at position i: the next candidate, or lines 202-209 when
\* the list is exhausted
LoopAt(i, available, score) ==
    /\ idx' = i
    /\ IF i <= Len(candidates')
       THEN /\ pc' = "check"
            /\ UNCHANGED <<result, raised>>
       ELSE LET ret == SelectReturn(available, score) IN
            IF ret.raised # "none"
            THEN /\ pc' = "raised"
                 /\ raised' = ret.raised
                 /\ UNCHANGED result
            ELSE /\ pc' = "done"
                 /\ result' = ret.value
                 /\ UNCHANGED raised

\* lines 164-192: entry of the call, up to the first probe
SelectEntry(workload, size) ==
    /\ pc \in {"idle", "done"}
    /\ workload_type' = workload
    /\ model_size' = size
    /\ candidates' = Candidates(workload, size)
    /\ available_systems' = << >>
    /\ answers' = << >>
    /\ IF Candidates(workload, size) = << >>
       THEN LoopAt(1, << >>, current_score)
       ELSE /\ idx' = 1
            /\ pc' = "check"
            /\ result' = NoResult
            /\ UNCHANGED raised
    /\ UNCHANGED current_score

\* a call made directly on an orchestrator object
SelectStart(workload, size) ==
    /\ main_pc = "start"
    /\ SelectEntry(workload, size)
    /\ UNCHANGED <<ref, isolatedVars, mainVars>>

\* lines 192-194: look the candidate up and probe it
CheckAvailability(probe) ==
    /\ pc = "check"
    /\ UNCHANGED <<workload_type, model_size, candidates, available_systems,
                   current_score, ref, isolatedVars, mainVars>>
    /\ LET found == FindSystem(candidates[idx]) IN
       IF found.raised # "none"
       THEN /\ pc' = "raised"
            /\ raised' = found.raised
            /\ UNCHANGED <<idx, answers, result>>
       ELSE LET avail == check_system_availability(found.value, probe) IN
            /\ answers' = Append(answers, [system |-> found.value.name,
                                          probe |-> probe,
                                          calls |-> avail.calls,
                                          queried |-> FALSE,
                                          reply |-> NotQueried])
            /\ IF avail.raised # "none"
               THEN /\ pc' = "raised"
                    /\ raised' = avail.raised
                    /\ UNCHANGED <<idx, result>>
               ELSE IF avail.value
               THEN /\ pc' = "resources"
                    /\ UNCHANGED <<idx, result, raised>>
               ELSE LoopAt(idx + 1, available_systems, current_score)

\* lines 195-200: query the telemetry of a host that passed the probe
GetResources(reply) ==
    /\ pc = "resources"
    /\ UNCHANGED <<workload_type, model_size, candidates, ref, isolatedVars,
                   mainVars>>
    /\ answers' = [answers EXCEPT ![Len(answers)] =
                     [@ EXCEPT !.queried = TRUE, !.reply = reply]]
    /\ LET system == FindSystem(candidates[idx]).value
           resources == get_system_resources(system, reply)
       IN
       IF resources.raised # "none"
       THEN /\ pc' = "raised"
            /\ raised' = resources.raised
            /\ UNCHANGED <<idx, result, available_systems, current_score>>
       ELSE IF DictGet(resources.value, "available", FALSE)
            THEN LET utilization_score ==
                         DictGet(resources.value, "avg_utilization",
                                 RatFromInt(100))
                     score == SetScore(current_score, system.name,
                                       IntMinusRat(100, utilization_score))
                     available == Append(available_systems, system.name)
                 IN  /\ current_score' = score
                     /\ available_systems' = available
                     /\ LoopAt(idx + 1, available, score)
            ELSE /\ UNCHANGED <<available_systems, current_score>>
                 /\ LoopAt(idx + 1, available_systems, current_score)

\* keep the completed call to compare a later call with
Remember ==
    /\ pc = "done"
    /\ ~ref.set
    /\ ref' = [set |-> TRUE, workload_type |-> workload_type,
               model_size |-> model_size, answers |-> answers,
               result |-> result]
    /\ UNCHANGED <<selectVars, isolatedVars, mainVars>>

Next ==
    \/ \E w \in WorkloadInputs, s \in ModelSizes : SelectStart(w, s)
    \/ \E p \in SelectProbes : CheckAvailability(p)
    \/ \E r \in SelectReplies : GetResources(r)

Spec == Init /\ [][Next]_vars

\* the same calls over fewer inputs, one completed call being kept
NextPair ==
    \/ \E w \in PairWorkloads, s \in PairSizes : SelectStart(w, s)
    \/ \E p \in PairProbes : CheckAvailability(p)
    \/ \E r \in PairReplies : GetResources(r)
    \/ Remember

SpecPair == Init /\ [][NextPair]_vars

----------------------------------------------------------------------------
(* The prober and the collector on their own, over every host and reply *)

TelemetryQuery(name, reply) ==
    /\ ~telemetry.asked
    /\ telemetry' = [asked |-> TRUE, system |-> name, reply |-> reply,
                     resources |-> get_system_resources(FindSystem(name).value,
                                                        reply)]
    /\ UNCHANGED <<selectVars, ref, availability, script, mainVars>>

AvailabilityQuery(name, probe) ==
    /\ ~availability.asked
    /\ availability' =
           [asked |-> TRUE, system |-> name, probe |-> probe,
            outcome |-> check_system_availability(FindSystem(name).value,
                                                  probe)]
    /\ UNCHANGED <<selectVars, ref, telemetry, script, mainVars>>

NextTelemetry ==
    \/ \E n \in SystemNames, r \in TelemetryReplies : TelemetryQuery(n, r)
    \/ \E n \in SystemNames, p \in ProbeReplies : AvailabilityQuery(n, p)

SpecTelemetry == Init /\ [][NextTelemetry]_vars

----------------------------------------------------------------------------
(* main() and orchestrate_full_deployment *)

\* largest number of workloads on the command line
MaxWorkloads == 2

MainWorkloads == {"development", "batch_processing"}
TargetChoices == {"mac", "dgx-spark", "hpc-1", "hpc-2", "hpc-3", "auto"}
MainArgs ==
    {[workloads |-> w, target_system |-> t, monitor_only |-> m] :
        w \in SeqsUpTo(MainWorkloads, MaxWorkloads) \ {<< >>},
        t \in TargetChoices, m \in BOOLEAN}
MainProbes == PairProbes
MainReplies == {[status |-> "exit0", stdout |-> <<GpuLine(10, 512, 1024)>>]}
selectLocals == <<pc, workload_type, model_size, candidates, idx,
                  available_systems, current_score, answers, result>>

Event(ev, workload, system) ==
    [ev |-> ev, workload |-> workload, system |-> system]

\* d[k] = v on a dict
DictSet(d, k, v) == [x \in DOMAIN d \cup {k} |-> IF x = k THEN v ELSE d[x]]

\* next(s for s in self.systems if s.type == t)
FindSystemByType(t) ==
    LET hits == {i \in 1..Len(systems) : systems[i].type = t}
    IN  IF hits = {}
        THEN [raised |-> "StopIteration", value |-> systems[1]]
        ELSE [raised |-> "none",
              value |-> systems[CHOOSE i \in hits : \A j \in hits : i <= j]]

\* variant: the monitor-only branch does not return
MainRoute_noReturn(a) ==
    IF a.target_system = "auto" THEN "fleet" ELSE "target"

\* lines 366-378: which of its three branches main() takes
MainRoute(a) ==
    IF a.monitor_only THEN "monitor"
    ELSE IF a.target_system = "auto" THEN "fleet"
    ELSE "target"

\* variant: the control-plane setup is left out
DriverStart_noMac == "fleet_select"

\* lines 326-330: the driver starts with the Mac
DriverStart == "fleet_mac"

\* variant: the loop is left after the first workload
DriverLoop_afterFirst(i, workloads) ==
    IF i <= 1 THEN "fleet_select" ELSE "fleet_dashboard"

\* lines 333 and 344: the loop over the workloads, then the dashboard
DriverLoop(i, workloads) ==
    IF i <= Len(workloads) THEN "fleet_select" ELSE "fleet_dashboard"

\* the process ends on an uncaught exception
Crash(ex) ==
    /\ main_pc' = "exited"
    /\ exit_status' = 1
    /\ raised' = ex

\* lines 350-378: parse the command line and take a branch
MainStart(a) ==
    /\ main_pc = "start"
    /\ pc = "idle"
    /\ args' = a
    /\ UNCHANGED <<selectLocals, ref, isolatedVars, dispatch>>
    /\ IF MainRoute(a) = "monitor"
       THEN /\ dashboard_file' = create_unified_dashboard
            /\ log' = Append(log, Event("dashboard", "", ""))
            /\ main_pc' = "exited"
            /\ exit_status' = 0
            /\ UNCHANGED <<fleet_i, deployment_results, raised>>
       ELSE IF MainRoute(a) = "fleet"
       THEN /\ main_pc' = DriverStart
            /\ fleet_i' = 1
            /\ deployment_results' = << >>
            /\ UNCHANGED <<log, exit_status, dashboard_file, raised>>
       ELSE LET target == FindSystem(a.target_system) IN
            /\ UNCHANGED <<fleet_i, deployment_results, log, dashboard_file>>
            /\ IF target.raised # "none"
               THEN Crash(target.raised)
               ELSE /\ main_pc' = "target_deploy"
                    /\ UNCHANGED <<exit_status, raised>>

\* lines 328-330: set the Mac up as control center
FleetMac(out) ==
    /\ main_pc = "fleet_mac"
    /\ UNCHANGED <<selectLocals, ref, isolatedVars, args, fleet_i,
                   dashboard_file>>
    /\ LET mac_system == FindSystemByType("mac") IN
       IF mac_system.raised # "none"
       THEN /\ Crash(mac_system.raised)
            /\ UNCHANGED <<deployment_results, log, dispatch>>
       ELSE LET ret == deploy_to_system(mac_system.value, << >>, out) IN
            /\ log' = Append(log, Event("deploy", "", mac_system.value.name))
            /\ dispatch' = [system |-> mac_system.value.name, workload |-> "",
                            out |-> out, ret |-> ret]
            /\ deployment_results' =
                   DictSet(deployment_results, <<"mac">>, ret.value)
            /\ main_pc' = DriverLoop(fleet_i, args.workloads)
            /\ UNCHANGED <<exit_status, raised>>

\* line 334: the placement of the next workload begins
FleetSelect ==
    /\ main_pc = "fleet_select"
    /\ SelectEntry(args.workloads[fleet_i], "medium")
    /\ log' = Append(log, Event("select", args.workloads[fleet_i], ""))
    /\ main_pc' = "fleet_selecting"
    /\ UNCHANGED <<ref, isolatedVars, args, fleet_i, deployment_results,
                   dispatch, exit_status, dashboard_file>>

\* lines 336-342: deploy to the selected host and file the outcome
FleetDispatch(out) ==
    /\ main_pc = "fleet_selecting"
    /\ pc = "done"
    /\ out \in DeployOutcomesFor(FindSystem(result.host).value)
    /\ UNCHANGED <<selectLocals, ref, isolatedVars, args, dashboard_file>>
    /\ LET workload == args.workloads[fleet_i]
           optimal_system == FindSystem(result.host).value
           ret == deploy_to_system(optimal_system,
                                   DeployConfig(workload, optimal_system.name),
                                   out)
       IN  /\ log' = Append(log, Event("deploy", workload, optimal_system.name))
           /\ dispatch' = [system |-> optimal_system.name,
                           workload |-> workload, out |-> out, ret |-> ret]
           /\ IF ret.hung
              THEN /\ main_pc' = "hung"
                   /\ UNCHANGED <<fleet_i, deployment_results, exit_status,
                                  raised>>
              ELSE IF ret.raised # "none"
              THEN /\ Crash(ret.raised)
                   /\ UNCHANGED <<fleet_i, deployment_results>>
              ELSE /\ deployment_results' =
                          DictSet(deployment_results,
                                  ResultKey(workload, optimal_system.name),
                                  ret.value)
                   /\ fleet_i' = fleet_i + 1
                   /\ main_pc' = DriverLoop(fleet_i + 1, args.workloads)
                   /\ UNCHANGED <<exit_status, raised>>

\* lines 344-348 and 380-382: write the dashboard, return, print, end
FleetDashboard ==
    /\ main_pc = "fleet_dashboard"
    /\ dashboard_file' = create_unified_dashboard
    /\ deployment_results' =
           DictSet(deployment_results, <<"dashboard">>, create_unified_dashboard)
    /\ log' = Append(log, Event("dashboard", "", ""))
    /\ main_pc' = "exited"
    /\ exit_status' = 0
    /\ UNCHANGED <<selectVars, ref, isolatedVars, args, fleet_i, dispatch>>

\* lines 375-382: deploy to the host named on the command line
TargetDeploy(out) ==
    /\ main_pc = "target_deploy"
    /\ out \in DeployOutcomesFor(FindSystem(args.target_system).value)
    /\ UNCHANGED <<selectLocals, ref, isolatedVars, args, fleet_i,
                   deployment_results, dashboard_file>>
    /\ LET target == FindSystem(args.target_system).value
           ret == deploy_to_system(target, [workloads |-> args.workloads], out)
       IN  /\ log' = Append(log, Event("deploy", "", target.name))
           /\ dispatch' = [system |-> target.name, workload |-> "",
                           out |-> out, ret |-> ret]
           /\ IF ret.hung
              THEN /\ main_pc' = "hung"
                   /\ UNCHANGED <<exit_status, raised>>
              ELSE IF ret.raised # "none"
              THEN Crash(ret.raised)
              ELSE /\ main_pc' = "exited"
                   /\ exit_status' = 0
                   /\ UNCHANGED raised

NextMain ==
    \/ \E a \in MainArgs : MainStart(a)
    \/ \E out \in MacDeployOutcomes : FleetMac(out)
    \/ FleetSelect
    \/ \E p \in MainProbes : CheckAvailability(p)
    \/ \E r \in MainReplies : GetResources(r)
    \/ \E out \in RemoteDeployOutcomes : FleetDispatch(out)
    \/ FleetDashboard
    \/ \E out \in RemoteDeployOutcomes : TargetDeploy(out)

SpecMain == Init /\ [][NextMain]_vars

----------------------------------------------------------------------------
(* One run of code/scripts/deploy.py *)

\* the values of --env tried: the accepted ones, the option left out, and
\* the name the orchestrator passes for a compute node
ScriptEnvArgs == EnvChoices \cup {"None", "hpc-1"}

\* lines 212-221: parse the command line and build the deployment object
ScriptStart(env_arg, validate_only, config) ==
    /\ script.pc = "start"
    /\ UNCHANGED <<selectVars, ref, telemetry, availability, mainVars>>
    /\ LET parsed == [script EXCEPT !.env_arg = env_arg,
                                    !.validate_only = validate_only,
                                    !.config = config]
       IN  IF env_arg # "None" /\ ~ArgparseAccepts(env_arg)
           THEN script' = [parsed EXCEPT !.pc = "exited", !.exit = 2]
           ELSE IF validate_only
           THEN script' = [parsed EXCEPT !.pc = "validate"]
           ELSE IF env_arg = "None"
           THEN script' = [parsed EXCEPT !.pc = "detect"]
           ELSE script' = [parsed EXCEPT !.pc = "validate",
                                         !.environment = env_arg]

\* lines 124-125: no environment given
ScriptDetect(gpus) ==
    /\ script.pc = "detect"
    /\ UNCHANGED <<selectVars, ref, telemetry, availability, mainVars>>
    /\ script' = [script EXCEPT !.pc = "validate",
                                !.environment = detect_environment(gpus)]

\* lines 130-132, and lines 223-225 with --validate-only
ScriptValidate(in) ==
    /\ script.pc = "validate"
    /\ UNCHANGED <<selectVars, ref, telemetry, availability, mainVars>>
    /\ LET checked == validate_requirements(in)
           seen == [script EXCEPT !.validation = in]
       IN  IF checked.raised # "none"
           THEN script' = [seen EXCEPT !.pc = "exited", !.exit = 1,
                                       !.raised = checked.raised]
           ELSE IF script.validate_only
           THEN script' = [seen EXCEPT !.pc = "exited",
                                       !.exit = ExitOf(checked.value)]
           ELSE IF ~checked.value
           THEN script' = [seen EXCEPT !.pc = "exited", !.returned = "false",
                                       !.exit = ExitOf(FALSE)]
           ELSE script' = [seen EXCEPT !.pc = "configure"]

\* line 135
ScriptConfigure ==
    /\ script.pc = "configure"
    /\ UNCHANGED <<selectVars, ref, telemetry, availability, mainVars>>
    /\ LET done == configure_for_environment(script.config, script.environment)
       IN  IF done.raised # "none"
           THEN script' = [script EXCEPT !.pc = "exited", !.exit = 1,
                                         !.raised = done.raised]
           ELSE script' = [script EXCEPT !.pc = "step", !.configured = TRUE]

\* lines 145-152, and lines 227-228: run the next step
ScriptStep(in) ==
    /\ script.pc = "step"
    /\ in \in StepInputs(Len(script.steps) + 1)
    /\ UNCHANGED <<selectVars, ref, telemetry, availability, mainVars>>
    /\ LET i == Len(script.steps) + 1
           passed == RunStep(i, in)
           ran == [script EXCEPT
                      !.steps = Append(@, [name |-> StepNames[i], in |-> in.run,
                                           passed |-> passed])]
           next == AfterStep(i, passed)
       IN  IF next = "step" THEN script' = ran
           ELSE IF next = "return_false"
           THEN script' = [ran EXCEPT !.pc = "exited", !.returned = "false",
                                      !.exit = ExitOf(FALSE)]
           ELSE script' = [ran EXCEPT !.pc = "exited", !.returned = "true",
                                      !.exit = ExitOf(TRUE)]

NextScript ==
    \/ \E e \in ScriptEnvArgs, v \in BOOLEAN, c \in LoadedConfigs :
          ScriptStart(e, v, c)
    \/ \E g \in GpuCounts : ScriptDetect(g)
    \/ \E in \in ValidationInputs : ScriptValidate(in)
    \/ ScriptConfigure
    \/ \E i \in 1..Len(StepNames) : \E in \in StepInputs(i) : ScriptStep(in)

SpecScript == Init /\ [][NextScript]_vars

----------------------------------------------------------------------------
(* Vocabulary of the properties, stated on what the environment answered *)

\* the probe answered for candidate i lets the host through: both stages
\* exited zero
ProbePassed(probe) == probe.ping = "rc0" /\ probe.ssh = "rc0"

\* the snapshot computed from the telemetry answered for candidate i
Snapshot(i) ==
    get_system_resources(FindSystem(candidates[i]).value, answers[i].reply)

\* candidate i passed the probe and reported usable telemetry in this call
Eligible(i) ==
    /\ ProbePassed(answers[i].probe)
    /\ answers[i].queried
    /\ DictGet(Snapshot(i).value, "available", FALSE)

AvgUtil(i) == Snapshot(i).value.avg_utilization
Priority(i) == FindSystem(candidates[i]).value.priority

Reached == 1..Len(answers)
EligibleSet == {i \in Reached : Eligible(i)}

\* the eligible candidates no other eligible candidate is less loaded than
TopScored ==
    {i \in EligibleSet : \A j \in EligibleSet : ~RatLess(AvgUtil(j), AvgUtil(i))}

RoutingList(workload) ==
    IF workload \in DOMAIN routing_rules THEN routing_rules[workload]
    ELSE <<"dgx-spark">>

\* the workload list narrowed to the size preference, in workload-list order
SizeIntersection(workload, size) ==
    SelectSeq(RoutingList(workload),
              LAMBDA n : n \in Range(preferred_systems(size)))

ProbedNames == [i \in Reached |-> candidates[i]]

\* the names of the eligible candidates, in list order
RECURSIVE EligibleNames(_)
EligibleNames(i) ==
    IF i > Len(answers) THEN << >>
    ELSE IF Eligible(i) THEN <<candidates[i]>> \o EligibleNames(i + 1)
    ELSE EligibleNames(i + 1)

\* what leaves the selector towards the dispatcher and the result set
Decision(workload, res) ==
    [system |-> res.host,
     config |-> DeployConfig(workload, res.host),
     key |-> ResultKey(workload, res.host)]

SameInputsAsRef ==
    /\ ref.set
    /\ pc = "done"
    /\ ref.workload_type = workload_type
    /\ ref.model_size = model_size
    /\ ref.answers = answers

ZeroAccelerators(reply) ==
    /\ reply.status = "exit0"
    /\ \A k \in 1..Len(reply.stdout) : reply.stdout[k].blank

LineMalformed(line) ==
    /\ ~line.blank
    /\ \/ Len(line.fields) # 3
       \/ \E k \in 1..Len(line.fields) : ~line.fields[k].int

LineZeroTotal(line) ==
    /\ ~line.blank
    /\ Len(line.fields) = 3
    /\ \A k \in 1..3 : line.fields[k].int
    /\ line.fields[3].val = 0

TelemetryFailure(reply) ==
    \/ reply.status # "exit0"
    \/ \E k \in 1..Len(reply.stdout) :
          LineMalformed(reply.stdout[k]) \/ LineZeroTotal(reply.stdout[k])

----------------------------------------------------------------------------
(* Properties *)

\* C1: a host returned through the normal path passed the availability
\* check and reported available telemetry in that same call; the returned
\* host is always in the registry, and a host that failed the availability
\* check in the call is returned only through the fallback.
C1_SelectedHostPassed ==
    pc = "done" =>
        /\ result.host \in SystemNames
        /\ result.path = "scored" =>
               \E i \in Reached : candidates[i] = result.host /\ Eligible(i)
        /\ \A i \in Reached :
               (candidates[i] = result.host /\ ~ProbePassed(answers[i].probe))
                   => result.path = "fallback"

\* a scored result in a call in which another candidate failed the probe
C1_Witness ==
    /\ pc = "done"
    /\ result.path = "scored"
    /\ \E i \in Reached : ~ProbePassed(answers[i].probe)

\* C2: of two eligible candidates the strictly more loaded one is never
\* returned, whatever their list positions and priorities.
C2_LowerUtilizationWins ==
    (pc = "done" /\ result.path = "scored") =>
        \A i, j \in EligibleSet :
            RatLess(AvgUtil(i), AvgUtil(j)) => result.host # candidates[j]

\* the less loaded host wins although it is listed later and has the
\* larger priority number
C2_Witness ==
    /\ pc = "done"
    /\ result.path = "scored"
    /\ \E i, j \in EligibleSet :
          /\ j < i
          /\ Priority(j) < Priority(i)
          /\ RatLess(AvgUtil(i), AvgUtil(j))
          /\ result.host = candidates[i]

C4_SizeNarrowsCandidates ==
    (pc = "done" /\ SizeIntersection(workload_type, model_size) # << >>) =>
        /\ ProbedNames = SizeIntersection(workload_type, model_size)
        /\ result.path = "scored" =>
               result.host \in Range(preferred_systems(model_size))

\* C5: when the workload list and the size preference do not intersect,
\* the full workload list is probed and scored in declared order.
C5_EmptyIntersectionFullList ==
    (pc = "done" /\ SizeIntersection(workload_type, model_size) = << >>) =>
        /\ candidates = RoutingList(workload_type)
        /\ ProbedNames = RoutingList(workload_type)
        /\ available_systems = EligibleNames(1)

\* an empty intersection over a list of two, the second host being scored
C5_Witness ==
    /\ pc = "done"
    /\ SizeIntersection(workload_type, model_size) = << >>
    /\ Len(RoutingList(workload_type)) = 2
    /\ Eligible(2)
    /\ result.path = "scored"

\* C6: when no candidate passes both checks the call raises nothing and
\* returns the gateway host dgx-spark, available or not.
C6_FallbackToGateway ==
    (pc \in {"done", "raised"} /\ EligibleSet = {}) =>
        /\ pc = "done"
        /\ raised = "none"
        /\ result = [host |-> "dgx-spark", path |-> "fallback"]
        /\ FindSystem(result.host).value.role = "orchestration_gateway"

\* the fallback is taken although the gateway itself failed the probe
C6_Witness ==
    /\ pc = "done"
    /\ result.path = "fallback"
    /\ \E i \in Reached :
          candidates[i] = "dgx-spark" /\ ~ProbePassed(answers[i].probe)

\* C7: a placement made through the fallback is marked: what is handed to
\* the dispatcher and filed in the result set differs from what a placement
\* won by score on the same host produces.
C7_FallbackMarkedDegraded ==
    (ref.set /\ pc = "done" /\ ref.result.path # result.path) =>
        Decision(ref.workload_type, ref.result) # Decision(workload_type, result)

\* C8: a call with the workload, size and answers of an earlier call on the
\* same orchestrator returns the host the earlier call returned.
C8_Deterministic ==
    SameInputsAsRef => result = ref.result

\* the repeated call runs while a candidate that did not survive carries a
\* score from another call that exceeds the winner's
C8_Witness ==
    /\ SameInputsAsRef
    /\ result.path = "scored"
    /\ \E i \in Reached :
          /\ ~Eligible(i)
          /\ candidates[i] \in DOMAIN current_score
          /\ RatLess(current_score[result.host], current_score[candidates[i]])

\* C9: a successful telemetry query without accelerator lines raises
\* nothing; its snapshot is exactly available=false and the host is not
\* among the scored ones.
C9_ZeroAcceleratorsUnavailable ==
    \A i \in Reached :
        (answers[i].queried /\ ZeroAccelerators(answers[i].reply)) =>
            /\ raised = "none"
            /\ Snapshot(i) = [raised |-> "none", value |-> AvailableFalse]
            /\ candidates[i] \notin Range(available_systems)

\* a host without accelerators is passed over and another host is scored
C9_Witness ==
    /\ pc = "done"
    /\ result.path = "scored"
    /\ \E i \in Reached :
          answers[i].queried /\ ZeroAccelerators(answers[i].reply)

\* C10: for a remote host every telemetry failure (non-zero exit, timeout,
\* a line that is not three integers, a memory total of zero) yields
\* exactly available=false, without partial data and without raising.
C10_TelemetryFailureUnavailable ==
    (/\ telemetry.asked
     /\ FindSystem(telemetry.system).value.type # "mac"
     /\ TelemetryFailure(telemetry.reply)) =>
        telemetry.resources = [raised |-> "none", value |-> AvailableFalse]

\* a reply whose first line parses and whose second does not
C10_Witness ==
    /\ telemetry.asked
    /\ FindSystem(telemetry.system).value.type # "mac"
    /\ telemetry.reply.status = "exit0"
    /\ Len(telemetry.reply.stdout) >= 2
    /\ telemetry.reply.stdout[1] = GpuLine(10, 512, 1024)
    /\ LineMalformed(telemetry.reply.stdout[2])
    /\ telemetry.resources.value = AvailableFalse

\* C11: check_system_availability answers true for the local-control host
\* without running any probe; for a remote host it answers true exactly when
\* ping and handshake both exit zero, and false, never raising, in every
\* other case, a timeout or a transport exception in either stage included.
C11_AvailabilityContract ==
    availability.asked =>
        LET system == FindSystem(availability.system).value
            outcome == availability.outcome
        IN  /\ outcome.raised = "none"
            /\ system.type = "mac" =>
                   outcome.value /\ outcome.calls = << >>
            /\ system.type # "mac" =>
                   (outcome.value <=> ProbePassed(availability.probe))

\* a remote host whose handshake could not be started
C11_Witness ==
    /\ availability.asked
    /\ FindSystem(availability.system).value.type # "mac"
    /\ availability.probe.ping = "rc0"
    /\ availability.probe.ssh = "OSError"
    /\ availability.outcome = [raised |-> "none", value |-> FALSE,
                               calls |-> <<"ping", "ssh">>]

----------------------------------------------------------------------------
(* Properties of main() and of the fleet driver *)

FleetRun == args.target_system = "auto" /\ ~args.monitor_only
TargetRun == args.target_system \notin {"", "auto"} /\ ~args.monitor_only
MonitorRun == args.monitor_only

IsSelect(e) == e.ev = "select"
IsWorkloadDeploy(e) == e.ev = "deploy" /\ e.workload # ""
WorkloadsOf(events) == [i \in 1..Len(events) |-> events[i].workload]
SelectedWorkloads == WorkloadsOf(SelectSeq(log, IsSelect))
DispatchedWorkloads == WorkloadsOf(SelectSeq(log, IsWorkloadDeploy))
DispatchedPairs ==
    {<<log[i].workload, log[i].system>> :
        i \in {j \in 1..Len(log) : IsWorkloadDeploy(log[j])}}
PerWorkloadKeys == DOMAIN deployment_results \ {<<"mac">>, <<"dashboard">>}

\* C12: in a fleet run that ends, no deployment failure has stopped the
\* driver: no exception reached it, and every requested workload, in list
\* order, got its own selection and its own dispatch.
C12_FailureDoesNotStopLaterWorkloads ==
    (FleetRun /\ main_pc = "exited") =>
        /\ raised = "none"
        /\ SelectedWorkloads = args.workloads
        /\ DispatchedWorkloads = args.workloads

\* the first of two different workloads failed and the second was dispatched
C12_Witness ==
    /\ FleetRun
    /\ main_pc = "exited"
    /\ Len(args.workloads) = 2
    /\ args.workloads[1] # args.workloads[2]
    /\ \E k \in PerWorkloadKeys :
          k[1] = args.workloads[1] /\ deployment_results[k] = FALSE
    /\ DispatchedWorkloads = args.workloads

\* C13 as stated: when the fleet driver finishes, the number of per-workload
\* results equals the number of dispatches attempted.
C13_ResultPerDispatch ==
    (FleetRun /\ main_pc = "exited") =>
        Cardinality(PerWorkloadKeys) = Len(DispatchedWorkloads)

\* C13: when the fleet driver finishes, the per-workload results are filed
\* one per distinct (workload, host) pair dispatched to; a pair dispatched
\* to twice keeps the outcome of the later dispatch only.
C13_ResultPerDistinctPair ==
    (FleetRun /\ main_pc = "exited") =>
        /\ PerWorkloadKeys = DispatchedPairs
        /\ Cardinality(PerWorkloadKeys) <= Len(DispatchedWorkloads)

\* one workload requested twice and placed on two different hosts
C13_Witness ==
    /\ FleetRun
    /\ main_pc = "exited"
    /\ Len(args.workloads) = 2
    /\ args.workloads[1] = args.workloads[2]
    /\ Cardinality(DispatchedPairs) = 2
    /\ Cardinality(PerWorkloadKeys) = 2

\* C14: the events of a fleet run are, in this order, the local-control
\* deployment, then for each requested workload in list order one selection
\* followed by one dispatch, then the dashboard; a selection is in progress
\* only after the previous dispatch has returned.
C14_FleetOrder ==
    FleetRun =>
        /\ Len(log) <= 2 * Len(args.workloads) + 2
        /\ \A i \in 1..Len(log) :
              IF i = 1 THEN log[i] = Event("deploy", "", "mac-studio")
              ELSE IF i = 2 * Len(args.workloads) + 2
              THEN log[i] = Event("dashboard", "", "")
              ELSE IF i % 2 = 0
              THEN log[i] = Event("select", args.workloads[i \div 2], "")
              ELSE /\ log[i].ev = "deploy"
                   /\ log[i].workload = args.workloads[(i - 1) \div 2]
                   /\ log[i].system \in SystemNames
        /\ pc \notin {"idle", "done"} =>
              /\ main_pc = "fleet_selecting"
              /\ log[Len(log)] = Event("select", workload_type, "")
        /\ main_pc = "exited" => Len(log) = 2 * Len(args.workloads) + 2

\* a finished fleet run over two workloads
C14_Witness ==
    /\ FleetRun
    /\ main_pc = "exited"
    /\ Len(args.workloads) = 2
    /\ Len(log) = 6
    /\ log[3].system # log[5].system

AnyDeploymentFailed ==
    \/ raised # "none"
    \/ \E k \in DOMAIN deployment_results \ {<<"dashboard">>} :
          deployment_results[k] = FALSE
    \/ TargetRun /\ dispatch.system # "" /\ ~dispatch.ret.value

\* C15: the exit status of a deploying run is 0 exactly when no requested
\* deployment failed.
C15_ExitStatusReflectsFailures ==
    (main_pc = "exited" /\ ~MonitorRun) =>
        (exit_status = 0 <=> ~AnyDeploymentFailed)

\* what a returned value says about the failure beyond the fact of it
ErrorDetail(v) == IF v \in BOOLEAN THEN "" ELSE v.error

\* C16: a dispatch to a remote host whose remote command exited non-zero
\* reports failure, one that reports success synced and exited zero, and the
\* failure carries what the remote command wrote to stderr.
C16_FailureCarriesStderr ==
    (dispatch.system \notin {"", "mac-studio"} /\ ~dispatch.ret.hung) =>
        /\ dispatch.out.ssh = "rc_nonzero" =>
              /\ dispatch.ret.value = FALSE
              /\ ErrorDetail(dispatch.ret.value) = dispatch.out.stderr
        /\ dispatch.ret.value = TRUE =>
              dispatch.out.sync = "rc0" /\ dispatch.out.ssh = "rc0"

\* C17: no remote step of a fleet run waits without bound.
C17_RemoteStepsBounded ==
    FleetRun => main_pc # "hung"

\* C19: a monitor-only run writes the dashboard and ends; it probes nothing,
\* queries nothing, selects nothing and dispatches nothing.
C19_MonitorOnlyDeploysNothing ==
    (MonitorRun /\ main_pc # "start") =>
        /\ main_pc = "exited"
        /\ exit_status = 0
        /\ log = <<Event("dashboard", "", "")>>
        /\ Len(dashboard_file) = Len(systems) - 1
        /\ pc = "idle"
        /\ answers = << >>
        /\ result = NoResult
        /\ dispatch = NoDispatch
        /\ deployment_results = << >>

\* monitor-only given together with a target host
C19_Witness ==
    /\ MonitorRun
    /\ args.target_system = "hpc-1"
    /\ main_pc = "exited"
    /\ Len(dashboard_file) = 4

\* C20: a run with a target host named on the command line performs exactly
\* one dispatch, to that host, and no selection, probe or telemetry query.
C20_TargetedSingleDispatch ==
    (TargetRun /\ main_pc \in {"exited", "hung"}) =>
        /\ log = <<Event("deploy", "", args.target_system)>>
        /\ dispatch.system = args.target_system
        /\ pc = "idle"
        /\ answers = << >>

IsDashboard(e) == e.ev = "dashboard"

\* the document that the registry determines: one entry per host after the
\* first, in registry order
DashboardOfRegistry(doc) ==
    /\ Len(doc) = Len(systems) - 1
    /\ \A i \in 1..Len(doc) :
          /\ doc[i].name = systems[i + 1].name
          /\ doc[i].host = systems[i + 1].host
          /\ doc[i].type = systems[i + 1].type

\* C21: a fleet run writes the dashboard exactly once, as its last event and
\* after the dispatch of every requested workload, whatever the deployments
\* returned; the document is the one the registry determines.
C21_DashboardOncePerFleetRun ==
    FleetRun =>
        /\ Len(SelectSeq(log, IsDashboard)) <= 1
        /\ (main_pc = "exited" /\ raised = "none") =>
              /\ Len(SelectSeq(log, IsDashboard)) = 1
              /\ IsDashboard(log[Len(log)])
              /\ DispatchedWorkloads = args.workloads
              /\ DashboardOfRegistry(dashboard_file)
              /\ deployment_results[<<"dashboard">>] = dashboard_file
        /\ main_pc # "exited" => dashboard_file = << >>

\* a finished fleet run in which every workload deployment failed
C21_Witness ==
    /\ FleetRun
    /\ main_pc = "exited"
    /\ Len(args.workloads) = 2
    /\ \A k \in PerWorkloadKeys : deployment_results[k] = FALSE
    /\ DashboardOfRegistry(dashboard_file)

\* C22: no operation changes or adds an attribute of a host of the registry:
\* no host carries an attribute that its constructor did not set.
C22_HostsImmutable ==
    DOMAIN current_score = {}

RemoteDispatch == dispatch.system \notin {"", "mac-studio"}
SyncFailed(out) == out.sync \in {"rc_nonzero", "OSError"}
RemoteCommandIssued(ret) ==
    \E i \in 1..Len(ret.calls) : ret.calls[i].cmd = "ssh deploy.py"

\* C23: in a dispatch to a remote host the remote command is issued only
\* after rsync exited zero and as the second command; when the sync fails
\* the remote command is not issued, the result is failure and no exception
\* reaches the driver.
C23_RemoteCommandAfterSync ==
    RemoteDispatch =>
        /\ Len(dispatch.ret.calls) >= 1
        /\ dispatch.ret.calls[1].cmd = "rsync"
        /\ RemoteCommandIssued(dispatch.ret) =>
              /\ dispatch.out.sync = "rc0"
              /\ Len(dispatch.ret.calls) = 2
              /\ dispatch.ret.calls[2].cmd = "ssh deploy.py"
              /\ dispatch.ret.calls[2].host = dispatch.ret.calls[1].host
        /\ SyncFailed(dispatch.out) =>
              /\ ~RemoteCommandIssued(dispatch.ret)
              /\ dispatch.ret.value = FALSE
              /\ dispatch.ret.raised = "none"
              /\ raised = "none"

\* a fleet run went on after the sync to a compute node exited non-zero
C23_Witness ==
    /\ RemoteDispatch
    /\ FindSystem(dispatch.system).value.type = "hpc"
    /\ dispatch.out.sync = "rc_nonzero"
    /\ dispatch.ret.calls = <<RsyncCall(FindSystem(dispatch.system).value.host)>>
    /\ dispatch.ret.value = FALSE
    /\ main_pc = "fleet_dashboard"

\* C24: the local-control deployment issues its three setup commands in
\* their order whatever each of them did, and its result is success.
C24_LocalControlBestEffort ==
    dispatch.system = "mac-studio" =>
        /\ [i \in 1..Len(dispatch.ret.calls) |-> dispatch.ret.calls[i].cmd]
               = MacCommands
        /\ dispatch.ret.value = TRUE
        /\ dispatch.ret.raised = "none"
        /\ deployment_results[<<"mac">>] = TRUE
        /\ raised = "none"

\* the first command could not be started and the second exited non-zero
C24_Witness ==
    /\ dispatch.system = "mac-studio"
    /\ dispatch.out.mac = <<"OSError", "rc_nonzero", "rc0">>
    /\ Len(dispatch.ret.calls) = 3
    /\ deployment_results[<<"mac">>] = TRUE
    /\ main_pc = "fleet_select"

\* C25: within one select_optimal_system call each candidate is probed in
\* stages and once: the handshake is run only after the ping of that host
\* exited zero, its telemetry is queried only after it passed the
\* availability check, and no candidate has more than one entry.
C25_StagedProbingNoRetry ==
    pc # "idle" =>
        /\ Len(answers) <= Len(candidates)
        /\ \A i \in 1..Len(answers) :
              /\ answers[i].system = candidates[i]
              /\ answers[i].calls \in {<<"ping">>, <<"ping", "ssh">>}
              /\ answers[i].calls = <<"ping", "ssh">> =>
                     answers[i].probe.ping = "rc0"
              /\ answers[i].queried => ProbePassed(answers[i].probe)
              /\ i < Len(answers) =>
                     (answers[i].queried <=> ProbePassed(answers[i].probe))
        /\ \A i, j \in 1..Len(answers) :
              answers[i].system = answers[j].system => i = j
        /\ pc = "resources" =>
              /\ ProbePassed(answers[Len(answers)].probe)
              /\ ~answers[Len(answers)].queried

\* the first candidate did not answer the ping, the second passed both
\* stages and was queried
C25_Witness ==
    /\ pc = "done"
    /\ Len(answers) = 2
    /\ answers[1].probe.ping = "rc_nonzero"
    /\ answers[1].calls = <<"ping">>
    /\ ~answers[1].queried
    /\ answers[2].calls = <<"ping", "ssh">>
    /\ answers[2].queried

\* C26: when a call returns a scored host, the hosts compared are exactly
\* those that were eligible in this call, each carries the score computed
\* from the snapshot fetched in this call, and the host returned is one that
\* no eligible host of this call is less loaded than; a score left on
\* another host by an earlier call plays no part.
C26_ScoresFromThisCall ==
    (pc = "done" /\ result.path = "scored") =>
        /\ available_systems = EligibleNames(1)
        /\ \A i \in EligibleSet :
              /\ candidates[i] \in DOMAIN current_score
              /\ RatEq(current_score[candidates[i]],
                       IntMinusRat(100, AvgUtil(i)))
        /\ \E i \in TopScored : result.host = candidates[i]

\* a later call returned a host although a candidate that was not eligible
\* this time still carries a higher score from an earlier call
C26_Witness ==
    /\ pc = "done"
    /\ result.path = "scored"
    /\ \E i \in Reached :
          /\ ~Eligible(i)
          /\ ~ProbePassed(answers[i].probe)
          /\ candidates[i] \in DOMAIN current_score
          /\ RatLess(current_score[result.host], current_score[candidates[i]])

\* C27: a run with a target host named on the command line finds that host
\* in the registry: it does not end on the lookup, and it reaches the
\* dispatch to the host of that name.
C27_TargetNamesResolve ==
    (TargetRun /\ main_pc # "start") =>
        /\ raised # "StopIteration"
        /\ args.target_system \in SystemNames
        /\ main_pc \in {"target_deploy", "exited", "hung"}
        /\ main_pc # "target_deploy" => dispatch.system = args.target_system

\* C28: the environment name that a dispatch to a remote host passes to
\* deploy.py --env is one of the values the script accepts.
C28_EnvNameAccepted ==
    RemoteDispatch =>
        \A i \in 1..Len(dispatch.ret.calls) :
            dispatch.ret.calls[i].cmd = "ssh deploy.py" =>
                dispatch.ret.calls[i].env \in EnvChoices

\* C29: a call for a workload type that the routing table does not list
\* raises nothing, has the gateway dgx-spark as its only candidate, probes
\* no other host and returns dgx-spark, whether it was eligible or not.
C29_UnlistedWorkloadGoesToGateway ==
    (pc # "idle" /\ workload_type \notin DOMAIN routing_rules) =>
        /\ candidates = <<"dgx-spark">>
        /\ pc # "raised"
        /\ raised = "none"
        /\ \A i \in Reached : answers[i].system = "dgx-spark"
        /\ pc = "done" =>
              /\ Len(answers) = 1
              /\ result.host = "dgx-spark"
              /\ result.path = IF Eligible(1) THEN "scored" ELSE "fallback"

\* 'production' with the gateway not answering the ping
C29_Witness ==
    /\ pc = "done"
    /\ workload_type = "production"
    /\ Len(answers) = 1
    /\ answers[1].probe.ping = "rc_nonzero"
    /\ result = [host |-> "dgx-spark", path |-> "fallback"]

----------------------------------------------------------------------------
(* Properties of code/scripts/deploy.py *)

ValidationPassed(v) == v.gpu = "rc0" /\ v.python /\ v.disk = "enough"
DeployReturned ==
    /\ ~script.validate_only
    /\ script.pc = "exited"
    /\ script.raised = "none"
    /\ script.validation # NoValidation

\* C30: deploy() runs Download Models, Configure Services, Start Services
\* and Verify Deployment in this order and runs nothing after a step that
\* failed; when the validation fails it returns failure having configured
\* nothing and run no step; it returns failure when a step failed and
\* success exactly when the validation and all four steps succeeded.
C30_DeployStepsInOrder ==
    ~script.validate_only =>
        /\ Len(script.steps) <= 4
        /\ \A i \in 1..Len(script.steps) :
              /\ script.steps[i].name =
                     <<"Download Models", "Configure Services",
                       "Start Services", "Verify Deployment">>[i]
              /\ i < Len(script.steps) => script.steps[i].passed
        /\ (script.configured \/ script.steps # << >>) =>
              ValidationPassed(script.validation)
        /\ DeployReturned =>
              IF ~ValidationPassed(script.validation)
              THEN /\ script.returned = "false"
                   /\ ~script.configured
                   /\ script.steps = << >>
              ELSE IF \E i \in 1..Len(script.steps) : ~script.steps[i].passed
              THEN script.returned = "false"
              ELSE script.returned = "true" /\ Len(script.steps) = 4
        /\ script.returned # "none" =>
              script.exit = (IF script.returned = "true" THEN 0 ELSE 1)

\* the second step failed after the first had passed
C30_Witness ==
    /\ DeployReturned
    /\ ValidationPassed(script.validation)
    /\ script.configured
    /\ Len(script.steps) = 2
    /\ script.steps[1].passed
    /\ script.steps[2] = [name |-> "Configure Services", in |-> "OSError",
                          passed |-> FALSE]
    /\ script.returned = "false"

====
